---- MODULE Spec2Model ----
(***************************************************************************)
(* Model of vcap: the Timeline widget (src/vidcapt/timeline.py) and the    *)
(* Exporter (src/vidcapt/exporter.py).                                     *)
(*                                                                         *)
(* Times are exact numbers.  The Timeline counts them in half seconds (one  *)
(* unit = 1/2 s), so that ratio * duration in _x_to_time is exact for the  *)
(* widget widths and the whole-second durations the model draws; pixels    *)
(* are whole pixels.  The Exporter counts them in ticks of 1/10000 s, one  *)
(* decimal finer than the milliseconds format_time prints.                 *)
(***************************************************************************)
EXTENDS Integers, Sequences, FiniteSets, TLC

VARIABLES
    duration,        \* Timeline._duration
    position,        \* Timeline._position
    in_point,        \* Timeline._in_point
    out_point,       \* Timeline._out_point
    dragging,        \* Timeline._dragging: "none", "in", "out", "seek"
    hover,           \* Timeline._hover: "none", "in", "out"
    width,           \* QWidget.width() of the Timeline
    process,         \* Exporter._process: 0 is None, p > 0 the p-th QProcess created
    total_duration,  \* Exporter._total_duration
    output_path,     \* Exporter._output_path: 0 is "", n > 0 the path of PathOf
    args,            \* the argument list export() handed to QProcess.start last
    pstate,          \* QProcess.state() of every QProcess object
    pending,         \* the process whose Crashed error was delivered and whose
                     \* finished signal follows in the same call (0: none)
    killed,          \* the live processes kill() was called on
    log,             \* history: the signals the notifications of each process emitted
    source_path,     \* MainWindow._source_path: 0 is "", 1 the path of a file
    emitted,         \* signals emitted by the last handler, in order
    last             \* the last handler that ran, its argument, the process
                     \* that notified, and whether it returned without raising

timelineVars == <<duration, position, in_point, out_point, dragging, hover, width>>

exporterVars == <<process, total_duration, output_path, args, pstate, pending,
                  killed, log>>

shellVars == <<source_path>>

vars == <<duration, position, in_point, out_point, dragging, hover, width,
          process, total_duration, output_path, args, pstate, pending, killed,
          log, source_path, emitted, last>>

-----------------------------------------------------------------------------
(* Bounds *)

MaxSeconds == 2

\* durations handed to the duration setter: whole seconds, in half seconds
DurationInputs == { 2 * s : s \in -1..MaxSeconds }

\* values handed to the position / in_point / out_point setters
TimeInputs == -1 .. (2 * MaxSeconds + 1)

\* widget widths: track widths 0 and 2 pixels
Widths == {24, 26}

\* pointer coordinates and buttons of mouse events
PointerXs == {-3, 0, 12, 13, 14, 20, 29}

\* pointer positions: every x inside the handles' vertical extent, one above it
Pointers == (PointerXs \X {30}) \cup {<<13, 5>>}

\* values handed to the position setter
PositionInputs == {-1, 1, 2 * MaxSeconds + 1}

Buttons == {"left", "right"}

\* QProcess objects the exporter may create
MaxJobs == 2

\* signals one process may cause before it ends
MaxNotes == 1

\* start and end handed to export(), in ticks: 0 s and 0.5 s
ExportTimes == {0, 5000}

\* what a chunk of ffmpeg output holds: no time stamp, or time=h:m:s.cc
NoStamp == [stamp |-> FALSE, h |-> 0, m |-> 0, s |-> 0, cc |-> 0]

Stamp(h, m, s, cc) == [stamp |-> TRUE, h |-> h, m |-> m, s |-> s, cc |-> cc]

Chunks == {NoStamp, Stamp(0, 0, 0, 25)}

\* exit codes of the ffmpeg process
ExitCodes == {0, 1}

-----------------------------------------------------------------------------
(* Helpers *)

Max(a, b) == IF a >= b THEN a ELSE b

Min(a, b) == IF a <= b THEN a ELSE b

Ev(sig, num, text) == [sig |-> sig, num |-> num, text |-> text]

Did(op, arg) == [op |-> op, arg |-> arg, job |-> 0, ok |-> TRUE]

Notified(op, arg, p, ok) == [op |-> op, arg |-> arg, job |-> p, ok |-> ok]

\* an export() call: arg is 1 when it created process p, 0 when it was rejected
Called(accepted, p, start, end, fmt, quality) ==
    [op |-> "export", arg |-> accepted, job |-> p, ok |-> TRUE,
     start |-> start, end |-> end, fmt |-> fmt, quality |-> quality]

\* the button and the position of a QMouseEvent
Pointer(button, x, y) == [button |-> button, x |-> x, y |-> y]

-----------------------------------------------------------------------------
(* Timeline geometry *)

TRACK_HEIGHT == 20

HANDLE_WIDTH == 10

HANDLE_HEIGHT == 30

MARGIN_X == 12

MARGIN_Y == 10

\* setFixedHeight(HANDLE_HEIGHT + MARGIN_Y * 2 + 10)
height == HANDLE_HEIGHT + MARGIN_Y * 2 + 10

\* _track_rect().left() and _track_rect().width()
track_left == MARGIN_X

track_width == width - 2 * MARGIN_X

\* _time_to_x returns a fraction of a pixel; x_den is its denominator and
\* time_to_x(t) its numerator: _time_to_x(t) = time_to_x(t) / x_den.
x_den == IF duration <= 0 THEN 1 ELSE duration

\* _time_to_x that adds the ratio itself instead of ratio * track.width()
time_to_x_unscaled(t) ==
    IF duration <= 0
    THEN track_left
    ELSE track_left * duration + t

time_to_x(t) ==
    IF duration <= 0
    THEN track_left
    ELSE track_left * duration + t * track_width

\* _x_to_time without ratio = max(0.0, min(1.0, ratio))
x_to_time_at_unclamped(n, den) ==
    IF track_width <= 0
    THEN 0
    ELSE ((n - track_left * den) * duration) \div (track_width * den)

\* _x_to_time of the pixel position n / den:
\* ratio = clamp((x - left) / width, 0, 1); ratio * duration
x_to_time_at(n, den) ==
    IF track_width <= 0
    THEN 0
    ELSE (Max(0, Min(track_width * den, n - track_left * den)) * duration)
             \div (track_width * den)

\* _x_to_time of a whole pixel
x_to_time(x) == x_to_time_at(x, 1)

\* QRectF.contains for the handle rectangle of _in_handle_rect, expanded by 4
in_rect_contains(x, y) ==
    LET expand == 4
        top    == (height - HANDLE_HEIGHT) \div 2
    IN  /\ x * x_den >= time_to_x(in_point) - (HANDLE_WIDTH + expand) * x_den
        /\ x * x_den <= time_to_x(in_point) + expand * x_den
        /\ y >= top - expand
        /\ y <= top + HANDLE_HEIGHT + expand

\* QRectF.contains for the handle rectangle of _out_handle_rect, expanded by 4
out_rect_contains(x, y) ==
    LET expand == 4
        top    == (height - HANDLE_HEIGHT) \div 2
    IN  /\ x * x_den >= time_to_x(out_point) - expand * x_den
        /\ x * x_den <= time_to_x(out_point) + (HANDLE_WIDTH + expand) * x_den
        /\ y >= top - expand
        /\ y <= top + HANDLE_HEIGHT + expand

hit_test(x, y) ==
    IF in_rect_contains(x, y) THEN "in"
    ELSE IF out_rect_contains(x, y) THEN "out"
    ELSE "none"

-----------------------------------------------------------------------------
(* Timeline operations *)

\* duration setter
SetDuration(value) ==
    /\ duration' = Max(0, value)
    /\ out_point' = Max(0, value)
    /\ emitted' = <<>>
    /\ last' = Did("setDuration", value)
    /\ UNCHANGED exporterVars
    /\ UNCHANGED shellVars
    /\ UNCHANGED <<position, in_point, dragging, hover, width>>

\* position setter
SetPosition(value) ==
    /\ position' = Max(0, Min(value, duration))
    /\ emitted' = <<>>
    /\ last' = Did("setPosition", value)
    /\ UNCHANGED exporterVars
    /\ UNCHANGED shellVars
    /\ UNCHANGED <<duration, in_point, out_point, dragging, hover, width>>

\* in_point setter that does not clamp against out_point
SetInPoint_unclamped(value) ==
    /\ in_point' = Max(0, value)
    /\ emitted' = <<>>
    /\ last' = Did("setInPoint", value)
    /\ UNCHANGED exporterVars
    /\ UNCHANGED shellVars
    /\ UNCHANGED <<duration, position, out_point, dragging, hover, width>>

\* in_point setter that emits in_point_changed
SetInPoint_emitting(value) ==
    /\ in_point' = Max(0, Min(value, out_point))
    /\ emitted' = <<Ev("in_point_changed", Max(0, Min(value, out_point)), "")>>
    /\ last' = Did("setInPoint", value)
    /\ UNCHANGED exporterVars
    /\ UNCHANGED shellVars
    /\ UNCHANGED <<duration, position, out_point, dragging, hover, width>>

\* in_point setter
SetInPoint(value) ==
    /\ in_point' = Max(0, Min(value, out_point))
    /\ emitted' = <<>>
    /\ last' = Did("setInPoint", value)
    /\ UNCHANGED exporterVars
    /\ UNCHANGED shellVars
    /\ UNCHANGED <<duration, position, out_point, dragging, hover, width>>

\* out_point setter
SetOutPoint(value) ==
    /\ out_point' = Max(in_point, Min(value, duration))
    /\ emitted' = <<>>
    /\ last' = Did("setOutPoint", value)
    /\ UNCHANGED exporterVars
    /\ UNCHANGED shellVars
    /\ UNCHANGED <<duration, position, in_point, dragging, hover, width>>

\* mousePressEvent that does not look at the button
mousePressEvent_any_button(button, x, y) ==
    /\ last' = Did("press", Pointer(button, x, y))
    /\ UNCHANGED exporterVars
    /\ UNCHANGED shellVars
    /\ IF duration <= 0
       THEN /\ emitted' = <<>>
            /\ UNCHANGED timelineVars
       ELSE LET hit == hit_test(x, y)
            IN  /\ IF hit # "none"
                   THEN /\ dragging' = hit
                        /\ emitted' = <<>>
                   ELSE /\ dragging' = "seek"
                        /\ emitted' = <<Ev("seek_requested", x_to_time(x), "")>>
                /\ UNCHANGED <<duration, position, in_point, out_point, hover, width>>

\* mousePressEvent
mousePressEvent(button, x, y) ==
    /\ last' = Did("press", Pointer(button, x, y))
    /\ UNCHANGED exporterVars
    /\ UNCHANGED shellVars
    /\ IF button # "left" \/ duration <= 0
       THEN /\ emitted' = <<>>
            /\ UNCHANGED timelineVars
       ELSE LET hit == hit_test(x, y)
            IN  /\ IF hit # "none"
                   THEN /\ dragging' = hit
                        /\ emitted' = <<>>
                   ELSE /\ dragging' = "seek"
                        /\ emitted' = <<Ev("seek_requested", x_to_time(x), "")>>
                /\ UNCHANGED <<duration, position, in_point, out_point, hover, width>>

\* mouseMoveEvent that does not clamp the dragged handle against the other one
mouseMoveEvent_unclamped(x, y) ==
    /\ last' = Did("move", Pointer("none", x, y))
    /\ UNCHANGED exporterVars
    /\ UNCHANGED shellVars
    /\ IF duration <= 0
       THEN /\ emitted' = <<>>
            /\ UNCHANGED timelineVars
       ELSE IF dragging = "in"
       THEN LET t == Max(0, x_to_time(x))
            IN  /\ in_point' = t
                /\ emitted' = <<Ev("in_point_changed", t, "")>>
                /\ UNCHANGED <<duration, position, out_point, dragging, hover, width>>
       ELSE IF dragging = "out"
       THEN LET t == Min(x_to_time(x), duration)
            IN  /\ out_point' = t
                /\ emitted' = <<Ev("out_point_changed", t, "")>>
                /\ UNCHANGED <<duration, position, in_point, dragging, hover, width>>
       ELSE IF dragging = "seek"
       THEN /\ emitted' = <<Ev("seek_requested", x_to_time(x), "")>>
            /\ UNCHANGED timelineVars
       ELSE /\ hover' = hit_test(x, y)
            /\ emitted' = <<>>
            /\ UNCHANGED <<duration, position, in_point, out_point, dragging, width>>

\* mouseMoveEvent
mouseMoveEvent(x, y) ==
    /\ last' = Did("move", Pointer("none", x, y))
    /\ UNCHANGED exporterVars
    /\ UNCHANGED shellVars
    /\ IF duration <= 0
       THEN /\ emitted' = <<>>
            /\ UNCHANGED timelineVars
       ELSE IF dragging = "in"
       THEN LET t == Max(0, Min(x_to_time(x), out_point))
            IN  /\ in_point' = t
                /\ emitted' = <<Ev("in_point_changed", t, "")>>
                /\ UNCHANGED <<duration, position, out_point, dragging, hover, width>>
       ELSE IF dragging = "out"
       THEN LET t == Max(in_point, Min(x_to_time(x), duration))
            IN  /\ out_point' = t
                /\ emitted' = <<Ev("out_point_changed", t, "")>>
                /\ UNCHANGED <<duration, position, in_point, dragging, hover, width>>
       ELSE IF dragging = "seek"
       THEN /\ emitted' = <<Ev("seek_requested", x_to_time(x), "")>>
            /\ UNCHANGED timelineVars
       ELSE /\ hover' = hit_test(x, y)
            /\ emitted' = <<>>
            /\ UNCHANGED <<duration, position, in_point, out_point, dragging, width>>

\* the layout resizes the widget: width() changes
resizeEvent(w) ==
    /\ width' = w
    /\ emitted' = <<>>
    /\ last' = Did("resize", w)
    /\ UNCHANGED exporterVars
    /\ UNCHANGED shellVars
    /\ UNCHANGED <<duration, position, in_point, out_point, dragging, hover>>

\* mouseReleaseEvent that does not look at the button
mouseReleaseEvent_any_button(button) ==
    /\ last' = Did("release", Pointer(button, 0, 0))
    /\ UNCHANGED exporterVars
    /\ UNCHANGED shellVars
    /\ emitted' = <<>>
    /\ dragging' = "none"
    /\ UNCHANGED <<duration, position, in_point, out_point, hover, width>>

\* mouseReleaseEvent
mouseReleaseEvent(button) ==
    /\ last' = Did("release", Pointer(button, 0, 0))
    /\ UNCHANGED exporterVars
    /\ UNCHANGED shellVars
    /\ emitted' = <<>>
    /\ dragging' = IF button = "left" THEN "none" ELSE dragging
    /\ UNCHANGED <<duration, position, in_point, out_point, hover, width>>

-----------------------------------------------------------------------------
(* Exporter *)

\* QProcess.ProcessError values
FailedToStart == 0

Crashed == 1

Timedout == 2

\* the errors that leave the process running
OtherErrors == {Timedout}

Jobs == 1..MaxJobs

\* the next QProcess object export() creates
NewProcess == CHOOSE p \in Jobs : pstate[p] = "NotCreated" /\
                  \A q \in Jobs : pstate[q] = "NotCreated" => p <= q

\* is_running property
is_running == process # 0 /\ pstate[process] = "Running"

\* the history with the signals evs emitted on a notification of process p
Logged(p, evs) == [log EXCEPT ![p] = log[p] \o evs]

\* the output path handed to export() by the call that creates process p: every
\* call names a file of its own, so a path tells which call it came from
PathOf(p) == p

\* QUALITY_PRESETS: (format, quality_name) -> crf value
QUALITY_PRESETS ==
    (<<"mp4", "High">> :> 18) @@ (<<"mp4", "Medium">> :> 23) @@
    (<<"mp4", "Low">> :> 28) @@ (<<"webm", "High">> :> 24) @@
    (<<"webm", "Medium">> :> 30) @@ (<<"webm", "Low">> :> 36)

\* QUALITY_PRESETS.get((fmt, quality), 23)
crf(fmt, quality) ==
    IF <<fmt, quality>> \in DOMAIN QUALITY_PRESETS
    THEN QUALITY_PRESETS[<<fmt, quality>>]
    ELSE 23

\* a text is the sequence of its characters
Digits == <<"0", "1", "2", "3", "4", "5", "6", "7", "8", "9">>

RECURSIVE Decimal(_)
\* str(n) of an integer n >= 0
Decimal(n) ==
    IF n < 10 THEN <<Digits[n + 1]>>
    ELSE Decimal(n \div 10) \o <<Digits[(n % 10) + 1]>>

RECURSIVE ZeroPad(_, _)
\* the zero fill of the format specifications 02d and 06.3f
ZeroPad(text, w) ==
    IF Len(text) >= w THEN text ELSE ZeroPad(<<"0">> \o text, w)

\* f"{n:02d}": the sign counts in the width
Format_02d(n) ==
    IF n < 0
    THEN <<"-">> \o ZeroPad(Decimal(-n), 1)
    ELSE ZeroPad(Decimal(n), 2)

\* f"{s:06.3f}" of s >= 0 ticks: s is rounded to the nearest millisecond (a
\* tie goes to the even one) and printed with three decimals in width 6
Format_06_3f(s) ==
    LET q  == s \div 10
        r  == s % 10
        ms == IF r > 5 \/ (r = 5 /\ q % 2 = 1) THEN q + 1 ELSE q
    IN  ZeroPad(Decimal(ms \div 1000) \o <<".">> \o ZeroPad(Decimal(ms % 1000), 3), 6)

\* format_time(seconds), seconds in ticks: // and % round towards minus infinity
format_time(seconds) ==
    LET h == seconds \div 36000000
        m == (seconds % 36000000) \div 600000
        s == seconds % 600000
    IN  Format_02d(h) \o <<":">> \o Format_02d(m) \o <<":">> \o Format_06_3f(s)

\* the value of args before the first export() call
NoArgs == [ss |-> <<>>, t |-> <<>>, codec |-> <<>>, out |-> 0]

\* the codec arguments export() adds for the format
codec_args(fmt, quality) ==
    IF fmt = "mp4"
    THEN <<"-c:v", "libx264", "-crf", crf(fmt, quality), "-c:a", "aac",
           "-b:a", "192k">>
    ELSE IF fmt = "webm"
    THEN <<"-c:v", "libvpx-vp9", "-crf", crf(fmt, quality), "-b:v", "0",
           "-c:a", "libopus", "-b:a", "128k">>
    ELSE <<>>

\* export(source, start, end, output_path, fmt, quality): start and end in
\* ticks; args holds the values of -ss and -t, the codec arguments and the
\* output path
ExportAs(start, end, fmt, quality) ==
    /\ pending = 0
    /\ IF is_running
       THEN /\ emitted' = <<Ev("error", -1, "Export already in progress.")>>
            /\ last' = Called(0, 0, start, end, fmt, quality)
            /\ UNCHANGED exporterVars
       ELSE /\ \E p \in Jobs : pstate[p] = "NotCreated"
            /\ total_duration' = end - start
            /\ output_path' = PathOf(NewProcess)
            /\ args' = [ss    |-> format_time(start),
                        t     |-> format_time(end - start),
                        codec |-> codec_args(fmt, quality),
                        out   |-> PathOf(NewProcess)]
            /\ process' = NewProcess
            /\ pstate' = [pstate EXCEPT ![NewProcess] = "Starting"]
            /\ emitted' = <<>>
            /\ last' = Called(1, NewProcess, start, end, fmt, quality)
            /\ UNCHANGED <<pending, killed, log>>
    /\ UNCHANGED timelineVars
    /\ UNCHANGED shellVars

\* export() with the default fmt = "mp4" and quality = "High"
Export(start, end) == ExportAs(start, end, "mp4", "High")

\* cancel() that also drops the handle when it kills
Cancel_releasing ==
    /\ pending = 0
    /\ killed' = IF process # 0 /\ pstate[process] = "Running"
                 THEN killed \cup {process}
                 ELSE killed
    /\ process' = IF process # 0 /\ pstate[process] = "Running" THEN 0 ELSE process
    /\ emitted' = <<>>
    /\ last' = Notified("cancel", 0, process, TRUE)
    /\ UNCHANGED <<total_duration, output_path, args, pstate, pending, log>>
    /\ UNCHANGED timelineVars
    /\ UNCHANGED shellVars

\* cancel()
Cancel ==
    /\ pending = 0
    /\ killed' = IF process # 0 /\ pstate[process] = "Running"
                 THEN killed \cup {process}
                 ELSE killed
    /\ emitted' = <<>>
    /\ last' = Notified("cancel", 0, process, TRUE)
    /\ UNCHANGED <<process, total_duration, output_path, args, pstate, pending, log>>
    /\ UNCHANGED timelineVars
    /\ UNCHANGED shellVars

\* the percentage of _on_output without the upper limit of 100
Percent_unclamped(chunk) ==
    LET cs == ((chunk.h * 3600 + chunk.m * 60 + chunk.s) * 100) + chunk.cc
    IN  (cs * 10000) \div total_duration

\* the percentage _on_output computes from a chunk's time stamp: cs is the
\* stamp in 1/100 s, and current / total * 100 = (cs / 100) / (total / 10000) * 100
Percent(chunk) ==
    LET cs == ((chunk.h * 3600 + chunk.m * 60 + chunk.s) * 100) + chunk.cc
    IN  Min(100, (cs * 10000) \div total_duration)

\* _on_output that guards the division only: a stamp read while
\* total_duration <= 0 is reported as progress 0
on_output_emits_unsuppressed(data) ==
    IF data.stamp
    THEN <<Ev("progress", IF total_duration > 0 THEN Percent(data) ELSE 0, "")>>
    ELSE <<>>

\* the signals _on_output emits for the data it read
on_output_emits(data) ==
    IF data.stamp /\ total_duration > 0
    THEN <<Ev("progress", Percent(data), "")>>
    ELSE <<>>

\* the signals _on_finished emits
on_finished_emits(exit_code) ==
    IF exit_code = 0
    THEN <<Ev("progress", 100, ""), Ev("finished", output_path, "")>>
    ELSE <<Ev("error", exit_code, "ffmpeg exited with code ")>>

\* _on_error with the texts of Crashed and Timedout exchanged
on_error_emits_swapped(error) ==
    IF error = FailedToStart
    THEN <<Ev("error", -1, "ffmpeg failed to start. Is it installed and on PATH?")>>
    ELSE IF error = Crashed
    THEN <<Ev("error", -1, "ffmpeg timed out.")>>
    ELSE IF error = Timedout
    THEN <<Ev("error", -1, "ffmpeg crashed.")>>
    ELSE <<Ev("error", error, "ffmpeg error: ")>>

\* the message _on_error emits
on_error_emits(error) ==
    IF error = FailedToStart
    THEN <<Ev("error", -1, "ffmpeg failed to start. Is it installed and on PATH?")>>
    ELSE IF error = Crashed
    THEN <<Ev("error", -1, "ffmpeg crashed.")>>
    ELSE IF error = Timedout
    THEN <<Ev("error", -1, "ffmpeg timed out.")>>
    ELSE <<Ev("error", error, "ffmpeg error: ")>>

\* the handle when _on_finished and _on_error leave it as it is
released_kept == process

\* the handle after _on_finished and after _on_error
released == 0

\* the process moves from Starting to Running; no slot is connected to started
ProcessStarted(p) ==
    /\ pending = 0
    /\ pstate[p] = "Starting"
    /\ pstate' = [pstate EXCEPT ![p] = "Running"]
    /\ emitted' = <<>>
    /\ last' = Notified("started", 0, p, TRUE)
    /\ UNCHANGED <<process, total_duration, output_path, args, pending, killed, log>>
    /\ UNCHANGED timelineVars
    /\ UNCHANGED shellVars

\* readyReadStandardOutput of process p runs _on_output, which reads from the
\* handle self._process: the chunk when the handle is p, nothing when the
\* handle is another process (whose own output was read on its own
\* notifications), and it raises when the handle is None.
ReadyRead(p, chunk) ==
    /\ pending = 0
    /\ pstate[p] = "Running"
    /\ Len(log[p]) < MaxNotes
    /\ IF process = 0
       THEN /\ emitted' = <<>>
            /\ last' = Notified("on_output", NoStamp, p, FALSE)
            /\ UNCHANGED log
       ELSE LET data == IF process = p THEN chunk ELSE NoStamp
            IN  /\ emitted' = on_output_emits(data)
                /\ last' = Notified("on_output", data, p, TRUE)
                /\ log' = Logged(p, on_output_emits(data))
    /\ UNCHANGED <<process, total_duration, output_path, args, pstate, pending, killed>>
    /\ UNCHANGED timelineVars
    /\ UNCHANGED shellVars

\* the process exits by itself: finished(exit_code, NormalExit) runs _on_finished
ProcessExited(p, exit_code) ==
    /\ pending = 0
    /\ pstate[p] = "Running"
    /\ pstate' = [pstate EXCEPT ![p] = "NotRunning"]
    /\ emitted' = on_finished_emits(exit_code)
    /\ log' = Logged(p, on_finished_emits(exit_code))
    /\ process' = released
    /\ last' = Notified("on_finished", exit_code, p, TRUE)
    /\ killed' = killed \ {p}
    /\ UNCHANGED <<total_duration, output_path, args, pending>>
    /\ UNCHANGED timelineVars
    /\ UNCHANGED shellVars

\* the process could not be started and no slot hears of it
ProcessFailedToStart_unheard(p) ==
    /\ pending = 0
    /\ pstate[p] = "Starting"
    /\ pstate' = [pstate EXCEPT ![p] = "NotRunning"]
    /\ emitted' = <<>>
    /\ last' = Notified("failed", FailedToStart, p, TRUE)
    /\ UNCHANGED <<process, total_duration, output_path, args, pending, killed, log>>
    /\ UNCHANGED timelineVars
    /\ UNCHANGED shellVars

\* the process could not be started: errorOccurred(FailedToStart) runs _on_error
ProcessFailedToStart(p) ==
    /\ pending = 0
    /\ pstate[p] = "Starting"
    /\ pstate' = [pstate EXCEPT ![p] = "NotRunning"]
    /\ emitted' = on_error_emits(FailedToStart)
    /\ log' = Logged(p, on_error_emits(FailedToStart))
    /\ process' = released
    /\ last' = Notified("on_error", FailedToStart, p, TRUE)
    /\ UNCHANGED <<total_duration, output_path, args, pending, killed>>
    /\ UNCHANGED timelineVars
    /\ UNCHANGED shellVars

\* the process crashed or was killed: errorOccurred(Crashed) runs _on_error
\* while state() is still Running; finished follows in the same call of Qt
ProcessCrashed(p) ==
    /\ pending = 0
    /\ pstate[p] = "Running"
    /\ pending' = p
    /\ emitted' = on_error_emits(Crashed)
    /\ log' = Logged(p, on_error_emits(Crashed))
    /\ process' = released
    /\ last' = Notified("on_error", Crashed, p, TRUE)
    /\ UNCHANGED <<total_duration, output_path, args, pstate, killed>>
    /\ UNCHANGED timelineVars
    /\ UNCHANGED shellVars

\* finished(exit_code, CrashExit) of the crashed process runs _on_finished
CrashFinished(p, exit_code) ==
    /\ pending = p
    /\ pending' = 0
    /\ pstate' = [pstate EXCEPT ![p] = "NotRunning"]
    /\ emitted' = on_finished_emits(exit_code)
    /\ log' = Logged(p, on_finished_emits(exit_code))
    /\ process' = released
    /\ last' = Notified("on_finished", exit_code, p, TRUE)
    /\ killed' = killed \ {p}
    /\ UNCHANGED <<total_duration, output_path, args>>
    /\ UNCHANGED timelineVars
    /\ UNCHANGED shellVars

\* errorOccurred with an error that leaves the process running runs _on_error
ProcessError(p, error) ==
    /\ pending = 0
    /\ pstate[p] = "Running"
    /\ Len(log[p]) < MaxNotes
    /\ emitted' = on_error_emits(error)
    /\ log' = Logged(p, on_error_emits(error))
    /\ process' = released
    /\ last' = Notified("on_error", error, p, TRUE)
    /\ UNCHANGED <<total_duration, output_path, args, pstate, pending, killed>>
    /\ UNCHANGED timelineVars
    /\ UNCHANGED shellVars

-----------------------------------------------------------------------------
(* Specifications *)

Init ==
    /\ duration = 0
    /\ position = 0
    /\ in_point = 0
    /\ out_point = 0
    /\ dragging = "none"
    /\ hover = "none"
    /\ width = 26
    /\ process = 0
    /\ total_duration = 0
    /\ output_path = 0
    /\ args = NoArgs
    /\ pstate = [p \in Jobs |-> "NotCreated"]
    /\ pending = 0
    /\ killed = {}
    /\ log = [p \in Jobs |-> <<>>]
    /\ source_path = 0
    /\ emitted = <<>>
    /\ last = Did("init", 0)

NextTimeline ==
    \/ \E v \in DurationInputs : SetDuration(v)
    \/ \E v \in PositionInputs : SetPosition(v)
    \/ \E v \in TimeInputs : SetInPoint(v)
    \/ \E v \in TimeInputs : SetOutPoint(v)
    \/ \E b \in Buttons, pt \in Pointers : mousePressEvent(b, pt[1], pt[2])
    \/ \E pt \in Pointers : mouseMoveEvent(pt[1], pt[2])
    \/ \E b \in Buttons : mouseReleaseEvent(b)
    \/ \E w \in Widths : resizeEvent(w)

SpecTimeline == Init /\ [][NextTimeline]_vars

\* the duration is set once, on the freshly created widget
SetDurationOnce(value) ==
    /\ last.op = "init"
    /\ SetDuration(value)

\* in_point and out_point setter calls after the duration was set
MarkIn(value) ==
    /\ last.op # "init"
    /\ SetInPoint(value)

MarkOut(value) ==
    /\ last.op # "init"
    /\ SetOutPoint(value)

NextMarks ==
    \/ \E v \in DurationInputs : SetDurationOnce(v)
    \/ \E v \in TimeInputs : MarkIn(v)
    \/ \E v \in TimeInputs : MarkOut(v)

SpecMarks == Init /\ [][NextMarks]_vars

NextExporter ==
    \/ \E st \in ExportTimes, en \in ExportTimes : Export(st, en)
    \/ Cancel
    \/ \E p \in Jobs : ProcessStarted(p)
    \/ \E p \in Jobs, chunk \in Chunks : ReadyRead(p, chunk)
    \/ \E p \in Jobs, code \in ExitCodes : ProcessExited(p, code)
    \/ \E p \in Jobs : ProcessFailedToStart(p)
    \/ \E p \in Jobs : ProcessCrashed(p)
    \/ \E p \in Jobs, code \in ExitCodes : CrashFinished(p, code)
    \/ \E p \in Jobs, error \in OtherErrors : ProcessError(p, error)

SpecExporter == Init /\ [][NextExporter]_vars

\* a process in state Starting starts or fails to start
Begins(p) == ProcessStarted(p) \/ ProcessFailedToStart(p)

\* a running process ends: it exits or crashes, and the finished signal of
\* a crash follows its error
Ends(p) ==
    \/ \E code \in ExitCodes : ProcessExited(p, code)
    \/ ProcessCrashed(p)
    \/ \E code \in ExitCodes : CrashFinished(p, code)

\* the calls and the notifications that begin and end jobs
NextJobs ==
    \/ \E en \in ExportTimes : Export(0, en)
    \/ Cancel
    \/ \E p \in Jobs : ProcessStarted(p)
    \/ \E p \in Jobs, code \in ExitCodes : ProcessExited(p, code)
    \/ \E p \in Jobs : ProcessFailedToStart(p)
    \/ \E p \in Jobs : ProcessCrashed(p)
    \/ \E p \in Jobs, code \in ExitCodes : CrashFinished(p, code)
    \/ \E p \in Jobs, error \in OtherErrors : ProcessError(p, error)

\* the exporter with processes that do not stay in Starting or Running for
\* ever, and an event loop that delivers their signals
SpecJobsFair ==
    /\ Init
    /\ [][NextJobs]_vars
    /\ \A p \in Jobs : WF_vars(Begins(p)) /\ WF_vars(Ends(p))

\* start and end handed to export() where progress is looked at: 0 s, 0.5 s
\* and 100 s
ProgressTimes == {0, 5000, 1000000}

\* output chunks where progress is looked at: no stamp, 0.29 s, 50 s, 1 min
ProgressChunks == {NoStamp, Stamp(0, 0, 0, 29), Stamp(0, 0, 50, 0), Stamp(0, 1, 0, 0)}

\* export() is called while no process is live
StartJob(start, end) ==
    /\ \A p \in Jobs : pstate[p] \notin {"Starting", "Running"}
    /\ Export(start, end)

\* jobs that run one after the other and whose processes exit by themselves
NextProgress ==
    \/ \E st \in ProgressTimes, en \in ProgressTimes : StartJob(st, en)
    \/ \E p \in Jobs : ProcessStarted(p)
    \/ \E p \in Jobs, chunk \in ProgressChunks : ReadyRead(p, chunk)
    \/ \E p \in Jobs, code \in ExitCodes : ProcessExited(p, code)

SpecProgress == Init /\ [][NextProgress]_vars

\* start and end handed to export() where the arguments are looked at: 0 s,
\* 0.5 s, 59.9996 s and 3661.5 s
ArgTimes == {0, 5000, 599996, 36615000}

\* fmt and quality handed to export(): the names of QUALITY_PRESETS and one
\* other name each
Formats == {"mp4", "webm", "avi"}

Qualities == {"High", "Medium", "Low", "Ultra"}

\* export() with any fmt and quality, called while no process is live
StartJobAs(start, end, fmt, quality) ==
    /\ \A p \in Jobs : pstate[p] \notin {"Starting", "Running"}
    /\ ExportAs(start, end, fmt, quality)

\* jobs of any format and quality that run one after the other
NextArgs ==
    \/ \E st \in ArgTimes, en \in ArgTimes, fmt \in Formats, quality \in Qualities :
          StartJobAs(st, en, fmt, quality)
    \/ \E p \in Jobs : ProcessStarted(p)
    \/ \E p \in Jobs, code \in ExitCodes : ProcessExited(p, code)

SpecArgs == Init /\ [][NextArgs]_vars

-----------------------------------------------------------------------------
(* Shell: the slots of MainWindow that write to the Timeline or call export() *)

\* _load_file(path): the player loads the file and timeline.in_point = 0.0
load_file ==
    /\ source_path' = 1
    /\ in_point' = Max(0, Min(0, out_point))
    /\ emitted' = <<>>
    /\ last' = Did("load_file", 0)
    /\ UNCHANGED <<duration, position, out_point, dragging, hover, width>>
    /\ UNCHANGED exporterVars

\* _on_duration_changed without its call of the out_point setter
on_duration_changed_duration_only(value) ==
    /\ duration' = Max(0, value)
    /\ out_point' = Max(0, value)
    /\ emitted' = <<>>
    /\ last' = Did("on_duration_changed", value)
    /\ UNCHANGED <<position, in_point, dragging, hover, width>>
    /\ UNCHANGED exporterVars
    /\ UNCHANGED shellVars

\* _on_duration_changed(duration): timeline.duration = duration, which also
\* stores out_point, and then timeline.out_point = duration
on_duration_changed(value) ==
    /\ duration' = Max(0, value)
    /\ out_point' = Max(in_point, Min(value, Max(0, value)))
    /\ emitted' = <<>>
    /\ last' = Did("on_duration_changed", value)
    /\ UNCHANGED <<position, in_point, dragging, hover, width>>
    /\ UNCHANGED exporterVars
    /\ UNCHANGED shellVars

\* _set_in_point(): timeline.in_point = t, with t the player's position
set_in_point(t) ==
    /\ in_point' = Max(0, Min(t, out_point))
    /\ emitted' = <<>>
    /\ last' = Did("set_in_point", t)
    /\ UNCHANGED <<duration, position, out_point, dragging, hover, width>>
    /\ UNCHANGED exporterVars
    /\ UNCHANGED shellVars

\* _set_out_point(): timeline.out_point = t, with t the player's position
set_out_point(t) ==
    /\ out_point' = Max(in_point, Min(t, duration))
    /\ emitted' = <<>>
    /\ last' = Did("set_out_point", t)
    /\ UNCHANGED <<duration, position, in_point, dragging, hover, width>>
    /\ UNCHANGED exporterVars
    /\ UNCHANGED shellVars

\* _export_clip(): it returns early without a loaded file, without ffmpeg on
\* PATH and when the file dialog gives no path (ready is FALSE); otherwise it
\* calls export() with start = timeline.in_point and end = timeline.out_point,
\* which are half seconds and become ticks
export_clip(ready, fmt, quality) ==
    IF source_path = 0 \/ ~ready
    THEN /\ emitted' = <<>>
         /\ last' = Did("export_clip", 0)
         /\ UNCHANGED timelineVars
         /\ UNCHANGED exporterVars
         /\ UNCHANGED shellVars
    ELSE ExportAs(5000 * in_point, 5000 * out_point, fmt, quality)

\* the formats and the qualities of the shell's combo boxes looked at
ShellFormats == {"mp4"}

ShellQualities == {"High"}

\* pointer positions of the shell's user: on the in handle, inside the track,
\* on the out handle at the track's end
ShellPointers == {<<0, 30>>, <<13, 30>>, <<20, 30>>}

\* positions of the player at which the user marks in or out
ShellTimes == {0, 1, 2 * MaxSeconds}

NextShell ==
    \/ load_file
    \/ \E v \in DurationInputs : on_duration_changed(v)
    \/ \E t \in ShellTimes : set_in_point(t)
    \/ \E t \in ShellTimes : set_out_point(t)
    \/ \E pt \in ShellPointers : mousePressEvent("left", pt[1], pt[2])
    \/ \E pt \in ShellPointers : mouseMoveEvent(pt[1], pt[2])
    \/ mouseReleaseEvent("left")
    \/ \E ready \in BOOLEAN, fmt \in ShellFormats, quality \in ShellQualities :
          export_clip(ready, fmt, quality)

SpecShell == Init /\ [][NextShell]_vars

-----------------------------------------------------------------------------
(* Claims about the Timeline *)

\* C1: in every reachable state of the Timeline, 0 <= in_point <= out_point
\* <= duration, also after the duration shrinks below in_point.
C1_RangeOrdered ==
    /\ 0 <= in_point
    /\ in_point <= out_point
    /\ out_point <= duration

\* C7: right after the duration setter ran with d >= 0, out_point = d and
\* 0 <= in_point <= out_point.
C7_AfterSetDuration ==
    (last.op = "setDuration" /\ last.arg >= 0) =>
        /\ out_point = last.arg
        /\ 0 <= in_point
        /\ in_point <= out_point

\* C8: once the duration was set on a fresh widget, every in_point and
\* out_point setter call, whatever its argument, leaves
\* 0 <= in_point <= out_point <= duration.
C8_MarksKeepOrder ==
    last.op \in {"setInPoint", "setOutPoint"} =>
        /\ 0 <= in_point
        /\ in_point <= out_point
        /\ out_point <= duration

\* an out_point setter call below in_point was clamped up to in_point, and an
\* in_point setter call beyond out_point was possible before it
C8_Clamped ==
    /\ last.op = "setOutPoint"
    /\ last.arg < in_point
    /\ out_point = in_point
    /\ in_point > 0
    /\ out_point < duration

\* C9 as stated: every in_point setter call emits in_point_changed with the
\* clamped value and every out_point setter call emits out_point_changed with
\* the clamped value.
C9_SettersEmit ==
    /\ last.op = "setInPoint" => emitted = <<Ev("in_point_changed", in_point, "")>>
    /\ last.op = "setOutPoint" => emitted = <<Ev("out_point_changed", out_point, "")>>

\* C9 amended: an in_point or out_point setter call stores the clamped value
\* and emits nothing; in_point_changed and out_point_changed are emitted only
\* by a pointer move, and carry the stored value.
C9_SettersStoreSilently ==
    /\ last.op = "setInPoint" =>
          /\ in_point = Max(0, Min(last.arg, out_point))
          /\ emitted = <<>>
    /\ last.op = "setOutPoint" =>
          /\ out_point = Max(in_point, Min(last.arg, duration))
          /\ emitted = <<>>
    /\ \A i \in 1..Len(emitted) :
          /\ emitted[i].sig = "in_point_changed" =>
                last.op = "move" /\ emitted[i].num = in_point
          /\ emitted[i].sig = "out_point_changed" =>
                last.op = "move" /\ emitted[i].num = out_point

\* an in_point setter call with an argument beyond out_point was clamped
C9_SetterClamped ==
    /\ last.op = "setInPoint"
    /\ last.arg > out_point
    /\ in_point = out_point
    /\ out_point > 0
    /\ emitted = <<>>

\* C10: in every reachable state of the Timeline, 0 <= position <= duration,
\* also after the duration shrinks.
C10_PositionInRange ==
    /\ 0 <= position
    /\ position <= duration

-----------------------------------------------------------------------------
(* Claims about the Exporter *)

\* the processes that were started and have not ended
Live == { p \in Jobs : pstate[p] \in {"Starting", "Running"} }

\* the signals of kind sig among the signals evs
Only(evs, sig) == SelectSeq(evs, LAMBDA e : e.sig = sig)

\* C2: at most one spawned process is live at any time: an export() call made
\* while an earlier job has not ended spawns no second process.
C2_OneLiveProcess == Cardinality(Live) <= 1

\* C3: when the process of a job exits with code 0, the signals emitted for the
\* job end with progress(100) followed by finished(path) with the path of the
\* export() call that started the job, and no progress follows a finished.
C3_SuccessEndsJob ==
    \A p \in Jobs :
        /\ (last.op = "on_finished" /\ last.job = p /\ last.arg = 0) =>
              /\ Len(log[p]) >= 2
              /\ log[p][Len(log[p]) - 1] = Ev("progress", 100, "")
              /\ log[p][Len(log[p])] = Ev("finished", PathOf(p), "")
        /\ \A i \in 1..Len(log[p]) : \A j \in 1..Len(log[p]) :
              (i < j /\ log[p][i].sig = "finished") => log[p][j].sig # "progress"

\* C4: when the process of a job exits with a nonzero code, exactly one error
\* signal was emitted for the job, it carries the exit code, and no finished
\* signal was emitted for the job.
C4_OneFailure ==
    \A p \in Jobs :
        (last.op = "on_finished" /\ last.job = p /\ last.arg # 0) =>
            /\ Only(log[p], "error") = <<Ev("error", last.arg, "ffmpeg exited with code ")>>
            /\ Only(log[p], "finished") = <<>>

\* C5: after _on_finished or _on_error ran, the handle is None and is_running
\* is false, and an export() call that comes next is accepted: it creates a
\* process and emits no error.
C5_IdleAfterTerminal ==
    [][ /\ (last'.op \in {"on_finished", "on_error"}) =>
              (process' = 0 /\ ~is_running')
        /\ (last.op \in {"on_finished", "on_error"} /\ last'.op = "export") =>
              /\ last'.arg = 1
              /\ process' \in Jobs
              /\ pstate[process'] = "NotCreated"
              /\ pstate'[process'] = "Starting"
              /\ emitted' = <<>>
      ]_vars

\* export() was accepted after an earlier job ended with a terminal signal
C5_ExportedAgain ==
    /\ last.op = "export"
    /\ last.arg = 1
    /\ process = 2
    /\ pstate[1] = "NotRunning"
    /\ log[1] # <<>>

\* C6: an errorOccurred notification for FailedToStart, Crashed or Timedout
\* emits one error signal with the text of that condition and releases the
\* handle, so that is_running is false.
C6_ProcessErrorReported ==
    last.op = "on_error" =>
        /\ last.arg = FailedToStart =>
              emitted = <<Ev("error", -1, "ffmpeg failed to start. Is it installed and on PATH?")>>
        /\ last.arg = Crashed => emitted = <<Ev("error", -1, "ffmpeg crashed.")>>
        /\ last.arg = Timedout => emitted = <<Ev("error", -1, "ffmpeg timed out.")>>
        /\ process = 0
        /\ ~is_running

\* the running process of the handle crashed and _on_error reported it
C6_CrashReported ==
    /\ last.op = "on_error"
    /\ last.arg = Crashed
    /\ pending = last.job
    /\ pstate[last.job] = "Running"
    /\ process = 0

-----------------------------------------------------------------------------
(* Claims about the progress of a job *)

C12_NeverProgress ==
    \A p \in Jobs :
        (last.job = p /\ last.op \in {"on_output", "on_finished"}
             /\ total_duration <= 0) =>
            Only(log[p], "progress") = <<>>

\* C12 amended: for a job whose total_duration is <= 0, _on_output emits
\* nothing whatever it reads; the only progress signal of such a job is the
\* progress(100) that _on_finished emits before finished when the exit code
\* is 0.
C12_OnlyFinalProgress ==
    \A p \in Jobs :
        (last.job = p /\ total_duration <= 0) =>
            /\ last.op = "on_output" =>
                  /\ emitted = <<>>
                  /\ Only(log[p], "progress") = <<>>
            /\ last.op = "on_finished" =>
                  /\ Only(log[p], "progress") =
                        IF last.arg = 0 THEN <<Ev("progress", 100, "")>> ELSE <<>>
                  /\ last.arg = 0 =>
                        log[p] = <<Ev("progress", 100, ""), Ev("finished", PathOf(p), "")>>

\* _on_output read a stamp in a job of total_duration < 0 and emitted nothing
C12_StampSuppressed ==
    /\ last.op = "on_output"
    /\ last.ok
    /\ last.arg.stamp
    /\ total_duration < 0
    /\ emitted = <<>>
    /\ log[last.job] = <<>>

-----------------------------------------------------------------------------
(* Claims about the arguments of a job *)

\* the quality table as the claim gives it
C13_Table(fmt, quality) ==
    IF fmt = "mp4"
    THEN (IF quality = "High" THEN 18 ELSE IF quality = "Low" THEN 28 ELSE 23)
    ELSE (IF quality = "High" THEN 24 ELSE IF quality = "Low" THEN 36 ELSE 30)

\* C13: the -crf value handed to the process of an mp4 or webm job is the
\* table entry of (format, quality), and for a quality name that is not in
\* the table it is the Medium entry of the format.
C13_QualityValue ==
    (last.op = "export" /\ last.arg = 1 /\ last.fmt \in {"mp4", "webm"}) =>
        /\ Len(args.codec) >= 4
        /\ args.codec[3] = "-crf"
        /\ args.codec[4] = C13_Table(last.fmt, last.quality)

\* the characters i..j of a text are digits, and the number they write
IsNumber(text, i, j) ==
    \A k \in i..j : \E n \in 0..9 : text[k] = Digits[n + 1]

RECURSIVE NumberAt(_, _, _)
NumberAt(text, i, j) ==
    IF j < i THEN 0
    ELSE 10 * NumberAt(text, i, j - 1) +
         (CHOOSE n \in 0..9 : text[j] = Digits[n + 1])

\* text writes v >= 0 ticks as HH:MM:SS.mmm with HH the whole hours, MM in
\* 00..59 and the seconds field below 60
C18_WellFormed(text, v) ==
    /\ Len(text) = 12
    /\ text[3] = ":" /\ text[6] = ":" /\ text[9] = "."
    /\ IsNumber(text, 1, 2) /\ IsNumber(text, 4, 5)
    /\ IsNumber(text, 7, 8) /\ IsNumber(text, 10, 12)
    /\ NumberAt(text, 1, 2) = v \div 36000000
    /\ NumberAt(text, 4, 5) \in 0..59
    /\ NumberAt(text, 7, 8) < 60

\* C18: the -ss and -t values format_time renders from non-negative seconds
\* are zero-padded HH:MM:SS.mmm with three decimals, HH the whole hours, MM in
\* 00..59 and the seconds field below 60; format_time(0) is 00:00:00.000 and
\* format_time(3661.5) is 01:01:01.500.
C18_TimeFormat ==
    (last.op = "export" /\ last.arg = 1) =>
        /\ last.start >= 0 => C18_WellFormed(args.ss, last.start)
        /\ last.end - last.start >= 0 =>
              C18_WellFormed(args.t, last.end - last.start)
        /\ last.start = 0 =>
              args.ss = <<"0", "0", ":", "0", "0", ":", "0", "0", ".", "0", "0", "0">>
        /\ last.start = 36615000 =>
              args.ss = <<"0", "1", ":", "0", "1", ":", "0", "1", ".", "5", "0", "0">>

-----------------------------------------------------------------------------
(* Claims about cancel() *)

-----------------------------------------------------------------------------
(* Claims about the end of a job *)

\* C15: every job export() started leads to a state where a terminal
\* notification of its process (_on_finished or _on_error) has run and the
\* handle is None, given that every process eventually starts or fails to
\* start and every running process eventually exits or crashes.
C15_JobLeadsToIdle ==
    \A p \in Jobs :
        (pstate[p] = "Starting") ~>
            /\ pstate[p] = "NotRunning"
            /\ last.job = p
            /\ last.op \in {"on_finished", "on_error"}
            /\ process = 0

\* a job ended with _on_finished after an earlier signal, and left the handle
\* None and no process live
C15_IdleAfterJob ==
    /\ pstate[1] = "NotRunning"
    /\ last.job = 1
    /\ last.op = "on_finished"
    /\ Len(log[1]) >= 2
    /\ process = 0
    /\ Live = {}

-----------------------------------------------------------------------------
(* Claims about the pixel mapping *)

\* the pixels the mapping is looked at: the track with two pixels on either
\* side, one pixel left of the widget and one right of it
C16_Pixels ==
    {-3, 30} \cup ((track_left - 2) .. (track_left + Max(track_width, 0) + 2))

\* C16 as stated: _x_to_time never decreases when the pixel grows, is 0 at and
\* left of the track's left edge, is the duration at and right of the track's
\* right edge, and is 0 at every pixel when the duration is 0.
C16_PixelToTime ==
    /\ \A x1 \in C16_Pixels : \A x2 \in C16_Pixels :
          x1 <= x2 => x_to_time(x1) <= x_to_time(x2)
    /\ \A x \in C16_Pixels : x <= track_left => x_to_time(x) = 0
    /\ \A x \in C16_Pixels : x >= track_left + track_width => x_to_time(x) = duration
    /\ duration = 0 => \A x \in C16_Pixels : x_to_time(x) = 0

\* C16 amended: _x_to_time never decreases when the pixel grows; on a track of
\* positive width it is 0 at and left of the left edge, the duration at and
\* right of the right edge, and within 0..duration in between; it is 0 at
\* every pixel when the duration is 0 or the track has no width.
C16_Saturates ==
    /\ \A x1 \in C16_Pixels : \A x2 \in C16_Pixels :
          x1 <= x2 => x_to_time(x1) <= x_to_time(x2)
    /\ track_width > 0 =>
          /\ \A x \in C16_Pixels : x <= track_left => x_to_time(x) = 0
          /\ \A x \in C16_Pixels :
                x >= track_left + track_width => x_to_time(x) = duration
          /\ \A x \in C16_Pixels : x_to_time(x) \in 0..duration
    /\ (duration = 0 \/ track_width <= 0) =>
          \A x \in C16_Pixels : x_to_time(x) = 0

\* a press right of the track asked to seek to the duration, and a pixel
\* inside the track maps to a time strictly between 0 and the duration
C16_SeekAtEnd ==
    /\ last.op = "press"
    /\ last.arg.x > track_left + track_width
    /\ track_width > 0
    /\ duration > 0
    /\ emitted = <<Ev("seek_requested", duration, "")>>
    /\ \E x \in C16_Pixels : 0 < x_to_time(x) /\ x_to_time(x) < duration

\* C17: with duration > 0 and a track of positive width, _x_to_time of the
\* pixel position _time_to_x(t) is t, for every t in 0..duration.
C17_RoundTrip ==
    (duration > 0 /\ track_width > 0) =>
        \A t \in 0..duration : x_to_time_at(time_to_x(t), x_den) = t

\* a drag put in_point strictly inside the track, at the time of the pointer's
\* pixel, and the in handle is drawn at that pixel
C17_HandleUnderPointer ==
    /\ last.op = "move"
    /\ dragging = "in"
    /\ track_width > 0
    /\ 0 < in_point /\ in_point < duration
    /\ emitted = <<Ev("in_point_changed", in_point, "")>>
    /\ time_to_x(in_point) = last.arg.x * x_den
    /\ x_to_time_at(time_to_x(in_point), x_den) = in_point

-----------------------------------------------------------------------------
(* Claims about the pointer *)

\* C19 as stated: a press with duration > 0 on the hit region of a handle sets
\* the drag mode of that handle and emits nothing; a press elsewhere sets the
\* drag mode "seek" and emits one seek_requested with _x_to_time of the
\* pointer's x; a press with duration = 0 changes nothing and emits nothing;
\* no press changes in_point, out_point, position or duration.
C19_PressAsStated ==
    [][ last'.op = "press" =>
            LET a   == last'.arg
                hit == hit_test(a.x, a.y)
            IN  /\ (duration > 0 /\ hit # "none") =>
                      /\ dragging' = hit
                      /\ emitted' = <<>>
                /\ (duration > 0 /\ hit = "none") =>
                      /\ dragging' = "seek"
                      /\ emitted' = <<Ev("seek_requested", x_to_time(a.x), "")>>
                /\ duration = 0 =>
                      /\ emitted' = <<>>
                      /\ UNCHANGED timelineVars
                /\ UNCHANGED <<in_point, out_point, position, duration>>
      ]_vars

\* C19 amended: a press of the left button with duration > 0 does what C19
\* says; a press of another button, and any press with duration = 0, changes
\* nothing and emits nothing; no press changes in_point, out_point, position
\* or duration.
C19_LeftPress ==
    [][ last'.op = "press" =>
            LET a   == last'.arg
                hit == hit_test(a.x, a.y)
            IN  /\ (a.button = "left" /\ duration > 0 /\ hit # "none") =>
                      /\ dragging' = hit
                      /\ emitted' = <<>>
                /\ (a.button = "left" /\ duration > 0 /\ hit = "none") =>
                      /\ dragging' = "seek"
                      /\ emitted' = <<Ev("seek_requested", x_to_time(a.x), "")>>
                /\ (a.button # "left" \/ duration = 0) =>
                      /\ emitted' = <<>>
                      /\ UNCHANGED timelineVars
                /\ UNCHANGED <<in_point, out_point, position, duration, hover, width>>
      ]_vars

\* a left press on the out handle, which is not under the in handle, started
\* the drag of the out handle
C19_OutHandleGrabbed ==
    /\ last.op = "press"
    /\ last.arg.button = "left"
    /\ duration > 0
    /\ hit_test(last.arg.x, last.arg.y) = "out"
    /\ dragging = "out"
    /\ emitted = <<>>

\* C20 as stated: a move while the in handle is dragged sets in_point to
\* _x_to_time(x) clamped to [0, out_point], emits one in_point_changed with
\* the stored in_point and leaves out_point, position and duration alone; a
\* move while the out handle is dragged sets out_point to the time clamped to
\* [in_point, duration], emits one out_point_changed with it and leaves
\* in_point alone.
C20_DragAsStated ==
    [][ last'.op = "move" =>
            LET t == x_to_time(last'.arg.x)
            IN  /\ dragging = "in" =>
                      /\ in_point' = Max(0, Min(t, out_point))
                      /\ emitted' = <<Ev("in_point_changed", in_point', "")>>
                      /\ UNCHANGED <<out_point, position, duration>>
                /\ dragging = "out" =>
                      /\ out_point' = Max(in_point, Min(t, duration))
                      /\ emitted' = <<Ev("out_point_changed", out_point', "")>>
                      /\ UNCHANGED <<in_point, position, duration>>
      ]_vars

\* C20 amended: with duration > 0 a move during a handle drag does what C20
\* says, with in_point = max(0, min(t, out_point)) and out_point =
\* max(in_point, min(t, duration)); with duration = 0 a move changes nothing
\* and emits nothing, whatever the drag mode.
C20_DragMoves ==
    [][ last'.op = "move" =>
            LET t == x_to_time(last'.arg.x)
            IN  /\ (duration > 0 /\ dragging = "in") =>
                      /\ in_point' = Max(0, Min(t, out_point))
                      /\ emitted' = <<Ev("in_point_changed", in_point', "")>>
                      /\ UNCHANGED <<out_point, position, duration, dragging,
                                     hover, width>>
                /\ (duration > 0 /\ dragging = "out") =>
                      /\ out_point' = Max(in_point, Min(t, duration))
                      /\ emitted' = <<Ev("out_point_changed", out_point', "")>>
                      /\ UNCHANGED <<in_point, position, duration, dragging,
                                     hover, width>>
                /\ duration = 0 =>
                      /\ emitted' = <<>>
                      /\ UNCHANGED timelineVars
      ]_vars

\* the out handle was dragged left of the in handle and stopped at in_point
C20_OutStoppedAtIn ==
    /\ last.op = "move"
    /\ dragging = "out"
    /\ duration > 0
    /\ in_point > 0
    /\ x_to_time(last.arg.x) < in_point
    /\ out_point = in_point
    /\ emitted = <<Ev("out_point_changed", out_point, "")>>

-----------------------------------------------------------------------------
(* Claims about the release of the pointer *)

\* C21 as stated: after every release, whatever the button and whatever the
\* drag mode was, the drag mode is "none" and nothing was emitted.
C21_ReleaseClearsDrag ==
    last.op = "release" =>
        /\ dragging = "none"
        /\ emitted = <<>>

\* C21 amended: a release of the left button leaves the drag mode "none"; a
\* release of another button leaves the drag mode as it was; no release emits
\* a signal or changes another field of the widget.
C21_LeftReleaseClears ==
    [][ last'.op = "release" =>
            /\ emitted' = <<>>
            /\ dragging' = IF last'.arg.button = "left" THEN "none" ELSE dragging
            /\ UNCHANGED <<duration, position, in_point, out_point, hover, width>>
      ]_vars

\* the right button was released during a drag of the in handle, and the drag
\* goes on
C21_DragOutlivesRightRelease ==
    /\ last.op = "release"
    /\ last.arg.button = "right"
    /\ dragging = "in"
    /\ emitted = <<>>

\* C22: after a release of the left button the drag mode is "none" and the
\* hover target is "none", whatever the hover target was before the drag.
C22_ReleaseResetsHover ==
    (last.op = "release" /\ last.arg.button = "left") =>
        /\ dragging = "none"
        /\ hover = "none"

-----------------------------------------------------------------------------
(* Claims about the terminal signals of a job *)

\* the finished and error signals emitted on the notifications of process p
Terminal(p) == SelectSeq(log[p], LAMBDA e : e.sig \in {"finished", "error"})

\* C23: a job gets at most one terminal signal (finished or error) while its
\* process lives, and exactly one once its process has ended, however the
\* process ends.
C23_OneTerminalEvent ==
    \A p \in Jobs :
        /\ Len(Terminal(p)) <= 1
        /\ pstate[p] = "NotRunning" => Len(Terminal(p)) = 1

\* C24: a finished or error notification of a process created before the one
\* in the handle leaves the handle as it is and emits no finished signal with
\* the output path of the handle's job.
C24_EarlierJobIsolated ==
    [][ \A q \in Jobs :
            (last'.op \in {"on_finished", "on_error"} /\ last'.job = q
                 /\ process \in Jobs /\ q < process) =>
                /\ process' = process
                /\ \A i \in 1..Len(emitted') :
                      ~(emitted'[i].sig = "finished" /\
                        emitted'[i].num = PathOf(process))
      ]_vars

\* C25: _on_output never raises: the handle is set whenever it reads from it.
C25_OutputNeverRaises ==
    last.op = "on_output" => last.ok

\* C26: _on_finished emits finished only for exit code 0, and never on the
\* finished notification of a process that crashed or was killed, whatever
\* its exit code.
C26_SuccessOnlyNormalExit ==
    [][ last'.op = "on_finished" =>
            /\ Only(emitted', "finished") # <<>> => last'.arg = 0
            /\ pending # 0 => Only(emitted', "finished") = <<>>
      ]_vars

-----------------------------------------------------------------------------
(* Claims about the shell *)

\* C27: every export() call of the shell passes end >= start, and
\* in_point <= out_point holds whenever _export_clip may read the Timeline,
\* after any file loads, duration changes, mark-in and mark-out actions and
\* handle drags.
C27_EndNotBeforeStart ==
    /\ in_point <= out_point
    /\ last.op = "export" =>
          /\ last.start = 5000 * in_point
          /\ last.end = 5000 * out_point
          /\ last.end >= last.start

\* the shell exported a clip after the duration shrank below in_point
C27_ExportedAfterShrink ==
    /\ last.op = "export"
    /\ last.arg = 1
    /\ in_point > duration
    /\ duration > 0
    /\ last.start = 5000 * in_point
    /\ last.end >= last.start

====
